---- MODULE Spec2Model ----
(***************************************************************************)
(* Model of src/main.py: class MonsterTraining.                            *)
(*                                                                         *)
(* A MonsterTraining object is built from the starting stats of a monster  *)
(* and one table of stat gains per rank.  youngest_max_stats_monster       *)
(* builds an integer program (one count per (rank, week)), hands it to the *)
(* solver and prints the result.  The solver is external: it is modelled   *)
(* by what an exact integer-programming solver returns, any optimal        *)
(* assignment being a possible answer.  Solver values are exact integers   *)
(* here, so the int(...) conversions of the source act on whole numbers.   *)
(***************************************************************************)
EXTENDS Integers, Sequences, FiniteSets

VARIABLES
    has_attrs,               \* TRUE iff __init__ took the ".csv" branch (the object has its fields)
    initial_stats,           \* self.initial_stats: stat -> starting value (row 0)
    stat_names,              \* self.stat_names
    rank_names,              \* self.rank_names
    training_stats_by_rank,  \* self.training_stats_by_rank: rank -> sequence of rows (stat -> gain)
    stat_gains,              \* self.stat_gains: stat -> ((rank, week) -> gain)
    week_labels,             \* self.week_labels: sequence of (rank, week) keys
    model,                   \* self.model
    objective,               \* self.objective: <<>> while the attribute does not exist, else <<n>>
    count,                   \* self.count: <<>> while the attribute does not exist
    upper_bound,             \* argument of the latest call
    printed,                 \* what the latest call printed, in order
    raised                   \* exception that escaped the latest call ("" if none)

vars == <<has_attrs, initial_stats, stat_names, rank_names, training_stats_by_rank,
          stat_gains, week_labels, model, objective, count, upper_bound, printed,
          raised>>

obj_fields == <<has_attrs, initial_stats, stat_names, rank_names,
                training_stats_by_rank, stat_gains, week_labels>>

----------------------------------------------------------------------------
(* Bounds of the model *)

\* at most this many rows (weeks) in one rank's file
MaxWeeks == 2
\* at most this many (week, stat) cells in the whole catalogue
MaxCells == 4

\* the value every stat has to reach
MaxStat == 999

\* ranks and stats the inputs are drawn from (rank list of the script, line 164)
RankUniverse == <<"d", "b", "s">>
StatUniverse == <<"Lif", "Pow">>
GainValues == {0, 1}
StartValues == {997, 999}
ScenarioGains == {0, 1, 2}
ScenarioStarts == {994, 997, 999}
UpperBounds == {0, 2}

----------------------------------------------------------------------------
(* Helpers *)

Range(s) == {s[i] : i \in DOMAIN s}

Prefixes(s) == {SubSeq(s, 1, n) : n \in 1..Len(s)}

RECURSIVE SumOver(_, _)
SumOver(f, S) ==
    IF S = {} THEN 0
    ELSE LET k == CHOOSE k \in S : TRUE IN f[k] + SumOver(f, S \ {k})

RECURSIVE SumFrom(_, _)
SumFrom(s, i) == IF i > Len(s) THEN 0 ELSE s[i] + SumFrom(s, i + 1)

SumSeq(s) == SumFrom(s, 1)

RECURSIVE Flatten(_)
Flatten(ss) == IF ss = <<>> THEN <<>> ELSE Head(ss) \o Flatten(Tail(ss))

RECURSIVE SelectSeqBy(_, _)
\* tuplelist.select(rank, '*'): the keys of that rank, in list order
SelectSeqBy(keys, rank) ==
    IF keys = <<>> THEN <<>>
    ELSE (IF Head(keys)[1] = rank THEN <<Head(keys)>> ELSE <<>>)
         \o SelectSeqBy(Tail(keys), rank)

\* str.upper() on the rank names of the model
Upper(rank) ==
    CASE rank = "d" -> "D"
      [] rank = "b" -> "B"
      [] rank = "s" -> "S"
      [] OTHER -> rank

----------------------------------------------------------------------------
(* Construction: __init__ and the two loaders *)

\* get_training_stats_from_files: one table per rank, read from the file
\* named rank.upper() + "-rank-data.csv" (files are keyed by that prefix)
get_training_stats_from_files(ranks, files) ==
    [rank \in Range(ranks) |-> files[Upper(rank)]]

\* the (rank, week) keys in the order the loops of get_stat_gains_as_dict
\* insert them: ranks in rank_names order, weeks 0 .. shape[0]-1
RECURSIVE KeysInOrder(_, _)
KeysInOrder(ranks, tsbr) ==
    IF ranks = <<>> THEN <<>>
    ELSE LET rank == Head(ranks)
             weeks_in_rank == Len(tsbr[rank])
         IN [i \in 1..weeks_in_rank |-> <<rank, i - 1>>]
            \o KeysInOrder(Tail(ranks), tsbr)

\* get_stat_gains_as_dict: stat -> ((rank, week) -> gain); week is the
\* 0-based row index, row week of the table being its (week+1)-th element
get_stat_gains_as_dict(stats, ranks, tsbr) ==
    [stat \in Range(stats) |->
        [k \in Range(KeysInOrder(ranks, tsbr)) |-> tsbr[k[1]][k[2] + 1][stat]]]

\* gp.multidict(self.stat_gains[self.stat_names[0]])[0]: the keys of the
\* first stat's dictionary, in insertion order
multidict_keys(stats, ranks, tsbr, gains) ==
    SelectSeq(KeysInOrder(ranks, tsbr), LAMBDA k : k \in DOMAIN gains[stats[1]])

\* self.model before any call: the attribute does not exist
NoModel ==
    [week_counts |-> <<>>, rank_constraints |-> <<>>,
     max_stats_constraints |-> <<>>, Status |-> "NONE", SolCount |-> 0, X |-> <<>>]

InitObject(ranks, stats, files, start) ==
    LET tsbr == get_training_stats_from_files(ranks, files)
        gains == get_stat_gains_as_dict(stats, ranks, tsbr)
    IN /\ has_attrs = TRUE
       /\ initial_stats = start
       /\ stat_names = stats
       /\ rank_names = ranks
       /\ training_stats_by_rank = tsbr
       /\ stat_gains = gains
       /\ week_labels = multidict_keys(stats, ranks, tsbr, gains)

\* __init__ with a file name that does not end in ".csv": the message is
\* printed and no field is set
InitNotCsv ==
    /\ has_attrs = FALSE
    /\ initial_stats = <<>>
    /\ stat_names = <<>>
    /\ rank_names = <<>>
    /\ training_stats_by_rank = <<>>
    /\ stat_gains = <<>>
    /\ week_labels = <<>>

\* the files of a catalogue: shape gives the number of rows of each rank's
\* file, g the gain in every (file, row, stat) cell
FilesOf(shape, stats, g) ==
    [f \in DOMAIN shape |->
        [w \in 1..shape[f] |-> [s \in Range(stats) |-> g[<<f, w, s>>]]]]

CellsOf(shape, stats) ==
    {c \in (DOMAIN shape) \X (1..MaxWeeks) \X Range(stats) : c[2] <= shape[c[1]]}

\* the state of the object before its first call
Fresh ==
    /\ model = NoModel
    /\ objective = <<>>
    /\ count = <<>>
    /\ upper_bound = 0
    /\ printed = <<>>
    /\ raised = ""

\* MonsterTraining(file, ranks) over every catalogue of at most MaxCells
\* cells.  At least one file has a row: what gp.multidict does with an
\* empty dictionary is not decided by this source.
Init ==
    /\ \/ InitNotCsv
       \/ \E ranks \in Prefixes(RankUniverse), stats \in Prefixes(StatUniverse) :
          \E shape \in [{Upper(r) : r \in Range(ranks)} -> 0..MaxWeeks] :
             LET total == SumOver(shape, DOMAIN shape)
             IN /\ total >= 1
                /\ total * Len(stats) <= MaxCells
                /\ \E g \in [CellsOf(shape, stats) -> GainValues],
                      start \in [Range(stats) -> StartValues] :
                      InitObject(ranks, stats, FilesOf(shape, stats, g), start)
    /\ Fresh

\* the catalogues of the scenarios of one stat and one week per rank, with
\* starting values further from 999
InitScenario ==
    /\ \/ InitNotCsv
       \/ \E ranks \in Prefixes(RankUniverse) :
             LET stats == SubSeq(StatUniverse, 1, 1)
                 shape == [f \in {Upper(r) : r \in Range(ranks)} |-> 1]
             IN \E g \in [CellsOf(shape, stats) -> ScenarioGains],
                   start \in [Range(stats) -> ScenarioStarts] :
                   InitObject(ranks, stats, FilesOf(shape, stats, g), start)
    /\ Fresh

----------------------------------------------------------------------------
(* The integer program of youngest_max_stats_monster *)

\* tupledict.sum(rank, '*'): the sum of the values whose key has that rank
sum_rank(x, keys, rank) ==
    SumSeq([i \in DOMAIN keys |-> IF keys[i][1] = rank THEN x[keys[i]] ELSE 0])

\* tupledict.sum(): the sum of all values
sum_all(x, keys) == SumSeq([i \in DOMAIN keys |-> x[keys[i]]])

\* tupledict.prod(coeffs): sum of value * coefficient over the common keys
prod(x, keys, coeffs) ==
    SumSeq([i \in DOMAIN keys |->
              IF keys[i] \in DOMAIN coeffs THEN x[keys[i]] * coeffs[keys[i]] ELSE 0])

\* variant: the slice keeps the last rank, every rank gets a constraint
rank_constraints_all(ranks) == SubSeq(ranks, 1, Len(ranks))

\* variant: the slice drops the first rank instead of the last
rank_constraints_tail(ranks) == SubSeq(ranks, 2, Len(ranks))

\* the ranks that get a constraint sum(rank, '*') >= 1:
\* self.rank_names[:len(self.rank_names) - 1]
rank_constraints(ranks) == SubSeq(ranks, 1, Len(ranks) - 1)

\* variant: the target is one short of 999
max_stats_constraints_short(stats, gains, start) ==
    [i \in DOMAIN stats |->
        [stat |-> stats[i], coeffs |-> gains[stats[i]],
         rhs |-> MaxStat - 1 - start[stats[i]]]]

\* variant: a stat that already stands at 999 gets no constraint
max_stats_constraints_omit(stats, gains, start) ==
    SelectSeq([i \in DOMAIN stats |->
                  [stat |-> stats[i], coeffs |-> gains[stats[i]],
                   rhs |-> MaxStat - start[stats[i]]]],
              LAMBDA c : c.rhs > 0)

\* one constraint prod(stat_gains[stat]) >= 999 - initial_stats.at[0, stat]
\* per stat of stat_names
max_stats_constraints(stats, gains, start) ==
    [i \in DOMAIN stats |->
        [stat |-> stats[i], coeffs |-> gains[stats[i]], rhs |-> MaxStat - start[stats[i]]]]

\* the model as it stands right before self.model.optimize()
build_model ==
    [week_counts |-> week_labels,
     rank_constraints |-> rank_constraints(rank_names),
     max_stats_constraints |-> max_stats_constraints(stat_names, stat_gains, initial_stats),
     Status |-> "LOADED", SolCount |-> 0, X |-> <<>>]

\* x satisfies every constraint of m
Satisfies(m, x) ==
    /\ \A i \in DOMAIN m.rank_constraints :
          sum_rank(x, m.week_counts, m.rank_constraints[i]) >= 1
    /\ \A i \in DOMAIN m.max_stats_constraints :
          prod(x, m.week_counts, m.max_stats_constraints[i].coeffs)
              >= m.max_stats_constraints[i].rhs

\* The counts are integer variables with Gurobi's default lower bound 0 and
\* no upper bound.  All coefficients being integers >= 0, a count above
\* max(1, largest right-hand side) can be lowered to it without breaking a
\* constraint, so no optimal assignment has one: the search is exhaustive.
CountBound(m) ==
    LET R == {m.max_stats_constraints[i].rhs : i \in DOMAIN m.max_stats_constraints}
    IN IF \E r \in R : r > 1 THEN CHOOSE r \in R : \A q \in R : q <= r ELSE 1

Feasible(m) == {x \in [Range(m.week_counts) -> 0..CountBound(m)] : Satisfies(m, x)}

\* self.model.optimize(): the models the call can leave behind.  A feasible
\* program ends OPTIMAL with any one of its minimal assignments, an
\* infeasible one INFEASIBLE; the solve can also stop early (interrupt, time
\* limit) with no solution at hand, which the source handles in its else
\* branch like every other status.
optimize(m) ==
    LET feas == Feasible(m)
        totals == {sum_all(x, m.week_counts) : x \in feas}
        best == CHOOSE t \in totals : \A u \in totals : t <= u
    IN {[m EXCEPT !.Status = "INTERRUPTED"]}
       \cup (IF feas = {}
             THEN {[m EXCEPT !.Status = "INFEASIBLE"]}
             ELSE {[m EXCEPT !.Status = "OPTIMAL", !.SolCount = 1, !.X = x] :
                      x \in {y \in feas : sum_all(y, m.week_counts) = best}})

\* self.model.getObjective().getValue() of a solved model
ObjVal(m) == sum_all(m.X, m.week_counts)

----------------------------------------------------------------------------
(* Output *)

NoOptimalLine == [kind |-> "NoOptimal"]       \* "No optimal solutions found."
AttrErrorLine == [kind |-> "AttrError"]       \* "Encountered an attribute error"
GurobiErrorLine == [kind |-> "GurobiError"]   \* "Error code ..."
TotalLine(n) == [kind |-> "Total", weeks |-> n]
RankLine(rank, n) == [kind |-> "Rank", rank |-> Upper(rank), weeks |-> n]
WeekLine(week, n) == [kind |-> "Week", week |-> week, count |-> n]
DescLine(d) == [kind |-> "Desc", gains |-> d]

\* variant: the test on the count lets unused weeks through
week_lines_all(x, k) ==
    IF x[k] >= 0
    THEN <<WeekLine(k[2], x[k]),
           DescLine([i \in DOMAIN stat_names |->
                       <<stat_names[i], stat_gains[stat_names[i]][k]>>])>>
    ELSE <<>>

\* the two lines of one used week: "Week w: n" and the gain of every stat
week_lines(x, k) ==
    IF x[k] > 0
    THEN <<WeekLine(k[2], x[k]),
           DescLine([i \in DOMAIN stat_names |->
                       <<stat_names[i], stat_gains[stat_names[i]][k]>>])>>
    ELSE <<>>

\* the body of the loop over self.rank_names in print_training_programme
rank_lines(x, rank) ==
    LET sel == SelectSeqBy(week_labels, rank)
    IN <<RankLine(rank, sum_rank(x, week_labels, rank))>>
       \o Flatten([i \in DOMAIN sel |-> week_lines(x, sel[i])])

\* print_training_programme, given the counts read from the model
print_training_programme(x) ==
    Flatten([i \in DOMAIN rank_names |-> rank_lines(x, rank_names[i])])

\* print_output: [printed, count] after it, obj being self.objective.
\* Formatting self.objective raises AttributeError while it does not exist;
\* model.getAttr('X', ...) raises GurobiError while there is no solution.
\* Both are caught by youngest_max_stats_monster, which prints one line.
print_output(m, obj) ==
    IF obj = <<>> THEN [printed |-> <<AttrErrorLine>>, count |-> count]
    ELSE IF m.SolCount = 0
         THEN [printed |-> <<TotalLine(obj[1]), GurobiErrorLine>>, count |-> count]
         ELSE [printed |-> <<TotalLine(obj[1])>> \o print_training_programme(m.X),
               count |-> m.X]

\* variant: the comparison is turned around
assert_ok_reversed(obj, ub) == obj >= ub

\* the check of line 146
assert_ok(obj, ub) == obj <= ub

\* youngest_max_stats_monster after optimize() has left model m
after_optimize(m, ub) ==
    LET optimal == m.Status = "OPTIMAL"
        obj == IF optimal /\ ub > 0 THEN <<ObjVal(m)>> ELSE objective
        pre == IF optimal THEN <<>> ELSE <<NoOptimalLine>>
        out == print_output(m, obj)
    IN IF optimal /\ ub > 0 /\ ~assert_ok(obj[1], ub)
       THEN [objective |-> obj, printed |-> <<>>, count |-> count,
             raised |-> "AssertionError"]
       ELSE [objective |-> obj, printed |-> pre \o out.printed, count |-> out.count,
             raised |-> ""]

----------------------------------------------------------------------------
(* Operations *)

\* youngest_max_stats_monster(upper_bound=ub) on an object with its fields,
\* for every upper bound and every model the solver can leave behind
Call ==
    /\ has_attrs
    /\ \E m \in optimize(build_model) :
       \E ub \in UpperBounds :
          LET r == after_optimize(m, ub)
          IN /\ model' = m
             /\ objective' = r.objective
             /\ count' = r.count
             /\ printed' = r.printed
             /\ raised' = r.raised
             /\ upper_bound' = ub
    /\ UNCHANGED obj_fields

\* the same call on an object whose __init__ set no field: gp.Model(...)
\* is assigned, then self.week_labels raises AttributeError, which is caught
CallNoAttrs(ub) ==
    /\ ~has_attrs
    /\ model' = [NoModel EXCEPT !.Status = "LOADED"]
    /\ printed' = <<AttrErrorLine>>
    /\ raised' = ""
    /\ upper_bound' = ub
    /\ UNCHANGED <<objective, count>>
    /\ UNCHANGED obj_fields

Next ==
    \/ Call
    \/ \E ub \in UpperBounds : CallNoAttrs(ub)

Spec == Init /\ [][Next]_vars

SpecScenario == InitScenario /\ [][Next]_vars

----------------------------------------------------------------------------
(* Vocabulary of the properties.  Sums are taken over sets and gains are   *)
(* read from the loaded tables, independently of the operators above.      *)

\* a call has been made and the solver left status OPTIMAL
Optimal == has_attrs /\ model.Status = "OPTIMAL"

\* a call has been made and the solver left another status
NotOptimal == has_attrs /\ model.Status \notin {"NONE", "LOADED", "OPTIMAL"}

\* positions of the printed lines of one kind
Lines(kind) == {i \in DOMAIN printed : printed[i].kind = kind}

TotalReported == Lines("Total") # {}

ProgrammeShown == Lines("Rank") # {}

\* every (rank, week) of the loaded tables, weeks counted from 0
AllWeeks ==
    UNION {{<<r, i - 1>> : i \in DOMAIN training_stats_by_rank[r]} : r \in Range(rank_names)}

WeeksOfRank(rank) == {k \in AllWeeks : k[1] = rank}

\* gain of a week for a stat, as the rank's file gives it
Gain(k, stat) == training_stats_by_rank[k[1]][k[2] + 1][stat]

\* total of an assignment over a set of weeks
Weeks(x, S) == SumOver([k \in S |-> x[k]], S)

\* the rank header a printed line stands under
Owner(i) ==
    CHOOSE j \in Lines("Rank") : j < i /\ \A q \in Lines("Rank") : q < i => q <= j

\* the count the printed programme gives a week (0 if it is not listed)
ReportedCount(k) ==
    LET S == {i \in Lines("Week") :
                /\ printed[i].week = k[2]
                /\ \E j \in Lines("Rank") : j < i
                /\ printed[Owner(i)].rank = Upper(k[1])}
    IN SumOver([i \in S |-> printed[i].count], S)

\* value of a stat after the printed programme
FinalStat(stat) ==
    initial_stats[stat]
        + SumOver([k \in AllWeeks |-> ReportedCount(k) * Gain(k, stat)], AllWeeks)

\* x meets every stat target and has a week in every rank but the last
MeetsTargets(x) ==
    /\ \A stat \in Range(stat_names) :
          initial_stats[stat] + SumOver([k \in AllWeeks |-> x[k] * Gain(k, stat)], AllWeeks)
              >= MaxStat
    /\ \A i \in 1..(Len(rank_names) - 1) : Weeks(x, WeeksOfRank(rank_names[i])) >= 1

\* the largest amount a stat is short of 999, and at least 1
Need ==
    LET D == {MaxStat - initial_stats[stat] : stat \in Range(stat_names)} \cup {1}
    IN CHOOSE d \in D : \A e \in D : e <= d

\* the j-th smallest element of a set of numbers
Nth(S, j) == CHOOSE w \in S : Cardinality({v \in S : v < w}) = j - 1

----------------------------------------------------------------------------
(* C1 *)

\* C1: whenever the solver status is Optimal and a result is reported, the
\* printed programme brings every stat to at least 999 (starting value plus
\* the sum of printed count times gain), and the printed total number of
\* weeks equals both the sum of the printed week counts and the sum of the
\* printed per-rank "Total weeks".
C1_RoundTrip ==
    (Optimal /\ TotalReported) =>
        /\ \A stat \in Range(stat_names) : FinalStat(stat) >= MaxStat
        /\ \A t \in Lines("Total") :
              /\ printed[t].weeks
                    = SumOver([i \in Lines("Week") |-> printed[i].count], Lines("Week"))
              /\ printed[t].weeks
                    = SumOver([i \in Lines("Rank") |-> printed[i].weeks], Lines("Rank"))

\* an Optimal result is reported whose programme lists two weeks and
\* overshoots a stat
C1_Witness ==
    /\ Optimal
    /\ TotalReported
    /\ Cardinality(Lines("Week")) >= 2
    /\ \E stat \in Range(stat_names) : FinalStat(stat) > MaxStat

----------------------------------------------------------------------------
(* C2 *)

\* C2: every Optimal schedule has at least one week in every rank except
\* the last of rank_names, and no other minimum is imposed: its total is not
\* larger than that of any assignment that meets the stat targets and has a
\* week in every rank but the last (so the last rank, and the only rank of
\* a one-rank list, may stay empty).
C2_RankCoverage ==
    Optimal =>
        /\ \A i \in 1..(Len(rank_names) - 1) :
              Weeks(model.X, WeeksOfRank(rank_names[i])) >= 1
        /\ \A x \in [AllWeeks -> 0..Need] :
              MeetsTargets(x) => Weeks(model.X, AllWeeks) <= Weeks(x, AllWeeks)

\* an Optimal schedule over several ranks that spends no week in the last
\* rank although that rank has weeks
C2_Witness ==
    /\ Optimal
    /\ Len(rank_names) >= 2
    /\ WeeksOfRank(rank_names[Len(rank_names)]) # {}
    /\ Weeks(model.X, WeeksOfRank(rank_names[Len(rank_names)])) = 0
    /\ \A i \in 1..(Len(rank_names) - 1) :
          Weeks(model.X, WeeksOfRank(rank_names[i])) >= 1

----------------------------------------------------------------------------
(* C3 *)

\* ranks d, b, s, one stat, one week per rank, every gain 1
ThreeRankScenario ==
    /\ has_attrs
    /\ rank_names = <<"d", "b", "s">>
    /\ Len(stat_names) = 1
    /\ \A r \in Range(rank_names) :
          /\ Len(training_stats_by_rank[r]) = 1
          /\ training_stats_by_rank[r][1][stat_names[1]] = 1

\* the assignments the solver can return as optimal for the object
OptimalAssignments == {m.X : m \in {o \in optimize(build_model) : o.Status = "OPTIMAL"}}

\* C3: in the three-rank scenario, from 997 the optimum is 2 weeks, one in d
\* and one in b; with 5 missing the optimum is 5 weeks and the optimal
\* schedules are exactly the assignments of total 5 with at least one week
\* in d and one in b.
C3_Scenario ==
    ThreeRankScenario =>
        /\ initial_stats[stat_names[1]] = 997 =>
              /\ OptimalAssignments
                    = {x \in [AllWeeks -> 0..2] :
                          x[<<"d", 0>>] = 1 /\ x[<<"b", 0>>] = 1 /\ x[<<"s", 0>>] = 0}
              /\ Optimal => Weeks(model.X, AllWeeks) = 2
              /\ (Optimal /\ TotalReported) => \A t \in Lines("Total") : printed[t].weeks = 2
        /\ initial_stats[stat_names[1]] = MaxStat - 5 =>
              /\ OptimalAssignments
                    = {x \in [AllWeeks -> 0..5] :
                          /\ x[<<"d", 0>>] >= 1
                          /\ x[<<"b", 0>>] >= 1
                          /\ Weeks(x, AllWeeks) = 5}
              /\ Optimal => Weeks(model.X, AllWeeks) = 5
              /\ (Optimal /\ TotalReported) => \A t \in Lines("Total") : printed[t].weeks = 5

\* the scenario with 5 missing, solved as d=1, b=1, s=3 and reported
C3_Witness ==
    /\ ThreeRankScenario
    /\ initial_stats[stat_names[1]] = MaxStat - 5
    /\ Optimal
    /\ TotalReported
    /\ model.X[<<"d", 0>>] = 1
    /\ model.X[<<"b", 0>>] = 1
    /\ model.X[<<"s", 0>>] = 3

----------------------------------------------------------------------------
(* C4 *)

AllMaxed == has_attrs /\ \A stat \in Range(stat_names) : initial_stats[stat] = MaxStat

\* the object has been called: its model holds the constraints of the call
Built == has_attrs /\ model.Status # "NONE"

\* C4: with every stat starting at 999 the model built by a call has one
\* stat constraint per stat, each with right-hand side 0, and an Optimal
\* result has exactly one week per rank other than the last: 0 weeks for a
\* single rank.  The program is infeasible only if one of those ranks has
\* no week to offer.
C4_AllMaxed ==
    (AllMaxed /\ Built) =>
        /\ Len(model.max_stats_constraints) = Len(stat_names)
        /\ \A i \in DOMAIN stat_names :
              /\ model.max_stats_constraints[i].stat = stat_names[i]
              /\ model.max_stats_constraints[i].rhs = 0
        /\ Optimal => Weeks(model.X, AllWeeks) = Len(rank_names) - 1
        /\ (Optimal /\ TotalReported) =>
              \A t \in Lines("Total") : printed[t].weeks = Len(rank_names) - 1
        /\ model.Status = "INFEASIBLE" =>
              \E i \in 1..(Len(rank_names) - 1) : WeeksOfRank(rank_names[i]) = {}

\* three ranks, every stat at 999, solved with 2 weeks and reported
C4_Witness ==
    /\ AllMaxed
    /\ Optimal
    /\ Len(rank_names) = 3
    /\ TotalReported
    /\ Weeks(model.X, AllWeeks) = 2

----------------------------------------------------------------------------
(* C5 *)

\* some stat is short of 999 and no week of any rank gains it
UnreachableStat ==
    /\ has_attrs
    /\ \E stat \in Range(stat_names) :
          /\ MaxStat - initial_stats[stat] > 0
          /\ \A k \in AllWeeks : Gain(k, stat) = 0

\* C5: when a stat that is short of 999 has gain 0 in every week of every
\* rank, the call fails while the model is built and the solver's optimize
\* step is never run, so that the model never carries a solver status.
C5_InfeasibleTargetAtBuild ==
    UnreachableStat => model.Status \in {"NONE", "LOADED"}

----------------------------------------------------------------------------
(* C6 *)

\* C6: a call without an upper bound (upper_bound = 0) that ends with
\* status Optimal takes no error path and reports the optimal total and the
\* training programme.
C6_NoBoundReports ==
    (Optimal /\ upper_bound = 0) =>
        /\ raised = ""
        /\ Lines("AttrError") = {}
        /\ Lines("GurobiError") = {}
        /\ \E t \in Lines("Total") : printed[t].weeks = Weeks(model.X, AllWeeks)
        /\ ProgrammeShown

----------------------------------------------------------------------------
(* C7 *)

\* C7: a call that ends with a status other than Optimal prints the single
\* line saying that no optimal solution was found, nothing else (no total,
\* no programme, no other message), and raises nothing.
C7_FailureOnly ==
    NotOptimal => (printed = <<NoOptimalLine>> /\ raised = "")

----------------------------------------------------------------------------
(* C8 *)

\* a call with an upper bound that the optimum exceeds
BoundExceeded == Optimal /\ upper_bound > 0 /\ Weeks(model.X, AllWeeks) > upper_bound

\* C8 as stated: when the optimum exceeds the supplied upper bound no
\* exception escapes the call and the total and the programme are reported.
C8_FlagNotFail ==
    BoundExceeded => (raised = "" /\ TotalReported /\ ProgrammeShown)

\* C8 amended: when the optimum exceeds the supplied upper bound the
\* assertion of the call fails: an AssertionError escapes, nothing is
\* printed, and self.objective holds the optimum.
C8_AssertEscapes ==
    BoundExceeded =>
        /\ raised = "AssertionError"
        /\ printed = <<>>
        /\ objective = <<Weeks(model.X, AllWeeks)>>

\* an optimum of 3 weeks or more against the upper bound 2
C8_Witness == BoundExceeded /\ raised = "AssertionError"

----------------------------------------------------------------------------
(* C9 *)

\* some rank of rank_names was loaded from a file without rows
EmptyTier == has_attrs /\ \E r \in Range(rank_names) : Len(training_stats_by_rank[r]) = 0

\* C9: an object one of whose ranks has no week does not exist past its
\* construction: no model is ever built for it and no solver run on it.
C9_EmptyTierAtLoad ==
    EmptyTier => model.Status = "NONE"

----------------------------------------------------------------------------
(* C10 *)

\* position of the header of the i-th rank
HeaderAt(i) == Nth(Lines("Rank"), i)

\* the weeks of a rank that the solution uses
UsedWeeks(rank) == {k[2] : k \in {q \in WeeksOfRank(rank) : count[q] > 0}}

\* C10: an Optimal result whose total is printed is followed by the
\* programme, and a printed programme has one header per rank, in
\* rank_names order, right after the total; the header gives the sum of
\* the counts of the rank's weeks, and under it stand exactly the rank's
\* weeks of count > 0, in ascending week order, each with its count and,
\* stat by stat in stat_names order, its gains.
C10_Programme ==
    /\ (Optimal /\ TotalReported) => ProgrammeShown
    /\ ProgrammeShown =>
          /\ count = model.X
          /\ Cardinality(Lines("Rank")) = Len(rank_names)
          /\ \A t \in Lines("Total") : HeaderAt(1) = t + 1
          /\ \A i \in DOMAIN rank_names :
                LET h == HeaderAt(i)
                    nxt == IF i < Len(rank_names) THEN HeaderAt(i + 1) ELSE Len(printed) + 1
                    r == rank_names[i]
                    used == UsedWeeks(r)
                IN /\ printed[h].rank = Upper(r)
                   /\ printed[h].weeks = Weeks(count, WeeksOfRank(r))
                   /\ nxt - h - 1 = 2 * Cardinality(used)
                   /\ \A j \in 1..Cardinality(used) :
                         LET w == Nth(used, j)
                         IN /\ printed[h + 2 * j - 1]
                                 = [kind |-> "Week", week |-> w, count |-> count[<<r, w>>]]
                            /\ printed[h + 2 * j]
                                 = [kind |-> "Desc",
                                    gains |-> [n \in DOMAIN stat_names |->
                                                 <<stat_names[n], Gain(<<r, w>>, stat_names[n])>>]]

\* a programme of two ranks in which a rank lists one of its two weeks
\* and skips the other, and another rank lists a week too
C10_Witness ==
    /\ Optimal
    /\ ProgrammeShown
    /\ \E r \in Range(rank_names) :
          /\ Cardinality(WeeksOfRank(r)) = 2
          /\ UsedWeeks(r) = {1}
          /\ \E q \in Range(rank_names) \ {r} : UsedWeeks(q) # {}

====
